---- MODULE Spec2Model ----
(***************************************************************************)
(* A model of the two original components of the repository:               *)
(*   - the trainer wrapper RunRay of D_train.py (train / setup_n_fit /     *)
(*     set_seeds / save_results), with the state file of the SLURM signal  *)
(*     handler and the calls it makes to the tuning engine;                *)
(*   - the model CombinedAutoregressiveActionModel of autoreg_model.py     *)
(*     (__init__ / forward / compute_action_logits / value_function).      *)
(* Spec is the trainer wrapper, ModelSpec the life of one model object and *)
(* MaskSpec the logit computation of a model whose masks table was filled  *)
(* in by its caller.                                                       *)
(***************************************************************************)
EXTENDS Integers, Sequences, FiniteSets, TLC

VARIABLES
    \* ---- D_train.py ----
    state_file,     \* the file at return_state_file_path(): [exists, content]
    setup_dict,     \* RunRay.setup_dict: seeds_lst, seed, training_iterations
    pc,             \* position of the single thread inside train/setup_n_fit
    idx,            \* position of the for loop of train in seeds_lst
    rng,            \* the seed last given to each of the four RNG sources
    trainer_config, \* the local trainer_config of setup_n_fit
    tuner,          \* the local tuner of setup_n_fit (unbound until assigned)
    best_res_grid,  \* the local best_res_grid of train (unbound until assigned)
    results_file,   \* the fragments appended to self.jason_path
    ray_up,         \* FALSE once ray.shutdown() was called
    exc,            \* the exception that left train, "" when none
    engine,         \* history: the calls received by the tuning engine
    entry_file,     \* history: state_file as it was when setup_n_fit was entered
    init_file,      \* history: state_file as it was when train was entered
    runs,           \* history: one record per setup_n_fit call that returned
    \* ---- autoreg_model.py ----
    mpc,            \* "unbuilt", "ready" (constructed) or "rejected" (__init__ raised)
    action_space,   \* the action_space given to __init__
    self,           \* the attributes of the model object
    ret,            \* what the latest call returned or raised
    fwd             \* history: the input_dict of the latest forward call

trainerVars == <<state_file, setup_dict, pc, idx, rng, trainer_config, tuner,
                 best_res_grid, results_file, ray_up, exc, engine, entry_file,
                 init_file, runs>>

modelVars == <<mpc, action_space, self, ret, fwd>>

vars == <<trainerVars, modelVars>>

--------------------------------------------------------------------------
(* Bounds of the trainer model *)

MaxSeeds == 3
MaxSeedValue == 2
MaxIterations == 2

(* Constants of D_train.py *)

CheckpointFrequency == 50
NumToKeep == 3

Seeds == 0..MaxSeedValue

RECURSIVE SeqsUpTo(_, _)
SeqsUpTo(S, n) ==
    IF n = 0 THEN {<<>>}
    ELSE LET shorter == SeqsUpTo(S, n - 1)
         IN  shorter \cup {Append(s, x) : s \in {t \in shorter : Len(t) = n - 1}, x \in S}

(* File contents are sequences of tokens: the word interrupted, another    *)
(* word, and the two whitespace runs a one-line text file can hold.        *)
Whitespace == {" ", "\n"}

FileContents ==
    { <<>>, <<"interrupted">>, <<"interrupted", "\n">>, <<" ", "interrupted">>,
      <<"\n">>, <<"done">>, <<"done", "\n">>, <<"interrupted", " ", "done">> }

NoFile == [exists |-> FALSE, content |-> <<>>]
FileWith(c) == [exists |-> TRUE, content |-> c]

RECURSIVE LStrip(_)
LStrip(s) == IF s # <<>> /\ Head(s) \in Whitespace THEN LStrip(Tail(s)) ELSE s

RECURSIVE RStrip(_)
RStrip(s) ==
    IF s # <<>> /\ s[Len(s)] \in Whitespace THEN RStrip(SubSeq(s, 1, Len(s) - 1)) ELSE s

(* str.strip() *)
StripId(s) == s
Strip(s) == RStrip(LStrip(s))

(* state == "interrupted" *)
IsInterrupted(content) == Strip(content) = <<"interrupted">>

output_dir == "~/ray_results"
experiment_name == "puzzle"
experiment_path == <<output_dir, experiment_name>>

UnboundTuner ==
    [kind |-> "unbound", path |-> <<>>, name |-> "", stop |-> -1,
     checkpoint_frequency |-> -1, checkpoint_at_end |-> FALSE, num_to_keep |-> -1,
     storage_path |-> "", param_seed |-> -1, resume_unfinished |-> FALSE]

(* tune.Tuner.restore(path=experiment_path, trainable="PPO", ...) *)
RestoredTuner(cfg) ==
    [UnboundTuner EXCEPT !.kind = "restore", !.path = experiment_path,
                         !.param_seed = cfg.seed, !.resume_unfinished = TRUE]

(* tune.Tuner("PPO", param_space=trainer_config, run_config=air.RunConfig(...)) *)
FreshTunerNoEnd(cfg, iterations) ==
    [UnboundTuner EXCEPT !.kind = "fresh", !.name = experiment_name,
                         !.stop = iterations,
                         !.checkpoint_frequency = CheckpointFrequency,
                         !.checkpoint_at_end = FALSE,
                         !.num_to_keep = NumToKeep,
                         !.storage_path = output_dir,
                         !.param_seed = cfg.seed]
FreshTuner(cfg, iterations) ==
    [UnboundTuner EXCEPT !.kind = "fresh", !.name = experiment_name,
                         !.stop = iterations,
                         !.checkpoint_frequency = CheckpointFrequency,
                         !.checkpoint_at_end = TRUE,
                         !.num_to_keep = NumToKeep,
                         !.storage_path = output_dir,
                         !.param_seed = cfg.seed]

Unseeded == [torch |-> -1, cuda |-> -1, numpy |-> -1, random |-> -1]

(* set_seeds: the four RNG sources are given the same seed *)
set_seeds(seed) == [torch |-> seed, cuda |-> seed, numpy |-> seed, random |-> seed]

UnboundResult == [bound |-> FALSE, checkpoint |-> "", tuner |-> UnboundTuner]

Checkpoints == {"", "ckpt"}

(* save_results: one JSON array holding one entry is appended to the file *)
save_results(file, best_result_grid, seed) ==
    Append(file, << [seed |-> seed,
                     best_checkpoint |-> IF best_result_grid.checkpoint # ""
                                         THEN best_result_grid.checkpoint
                                         ELSE "null"] >>)

--------------------------------------------------------------------------
(* The trainer wrapper *)

TrainerInit ==
    /\ state_file \in {NoFile} \cup {FileWith(c) : c \in FileContents}
    /\ \E seeds \in SeqsUpTo(Seeds, MaxSeeds), it \in 1..MaxIterations :
          setup_dict = [seeds_lst |-> seeds, seed |-> -1, training_iterations |-> it]
    /\ pc = "train"
    /\ idx = 0
    /\ rng = Unseeded
    /\ trainer_config = [seed |-> -1]
    /\ tuner = UnboundTuner
    /\ best_res_grid = UnboundResult
    /\ results_file = <<>>
    /\ ray_up = TRUE
    /\ exc = ""
    /\ engine = <<>>
    /\ entry_file = NoFile
    /\ init_file = state_file
    /\ runs = <<>>

(* train, line 131-132: the loop over seeds_lst is entered *)
TrainEnter ==
    /\ pc = "train"
    /\ pc' = "loop"
    /\ idx' = 1
    /\ UNCHANGED <<state_file, setup_dict, rng, trainer_config, tuner, best_res_grid,
                   results_file, ray_up, exc, engine, entry_file, init_file, runs>>
    /\ UNCHANGED modelVars

(* train, lines 132-135: the next seed is taken, the RNG sources reseeded  *)
(* and the seed stored in setup_dict; past the last seed the loop is left  *)
TrainNextSeed ==
    /\ pc = "loop"
    /\ idx <= Len(setup_dict.seeds_lst)
    /\ rng' = set_seeds(setup_dict.seeds_lst[idx])
    /\ setup_dict' = [setup_dict EXCEPT !.seed = setup_dict.seeds_lst[idx]]
    /\ pc' = "setup"
    /\ UNCHANGED <<state_file, idx, trainer_config, tuner, best_res_grid,
                   results_file, ray_up, exc, engine, entry_file, init_file, runs>>
    /\ UNCHANGED modelVars

TrainLoopEnd ==
    /\ pc = "loop"
    /\ idx > Len(setup_dict.seeds_lst)
    /\ pc' = "shutdown"
    /\ UNCHANGED <<state_file, setup_dict, idx, rng, trainer_config, tuner,
                   best_res_grid, results_file, ray_up, exc, engine, entry_file,
                   init_file, runs>>
    /\ UNCHANGED modelVars

(* setup_n_fit, lines 67-84: the configuration is built from setup_dict;   *)
(* tuner is a fresh local of this call                                     *)
SetupConfig ==
    /\ pc = "setup"
    /\ trainer_config' = [seed |-> setup_dict.seed]
    /\ tuner' = UnboundTuner
    /\ entry_file' = state_file
    /\ pc' = "check"
    /\ UNCHANGED <<state_file, setup_dict, idx, rng, best_res_grid, results_file,
                   ray_up, exc, engine, init_file, runs>>
    /\ UNCHANGED modelVars

(* line 85: os.path.exists(state_file_path) *)
CheckStateFile ==
    /\ pc = "check"
    /\ pc' = IF state_file.exists THEN "read" ELSE "fresh"
    /\ UNCHANGED <<state_file, setup_dict, idx, rng, trainer_config, tuner,
                   best_res_grid, results_file, ray_up, exc, engine, entry_file,
                   init_file, runs>>
    /\ UNCHANGED modelVars

(* lines 86-88: the file is read, stripped and compared with the marker *)
ReadStateFile ==
    /\ pc = "read"
    /\ pc' = IF IsInterrupted(state_file.content) THEN "restore" ELSE "remove"
    /\ UNCHANGED <<state_file, setup_dict, idx, rng, trainer_config, tuner,
                   best_res_grid, results_file, ray_up, exc, engine, entry_file,
                   init_file, runs>>
    /\ UNCHANGED modelVars

(* lines 90-97: tune.Tuner.restore *)
RestoreTuner ==
    /\ pc = "restore"
    /\ tuner' = RestoredTuner(trainer_config)
    /\ engine' = Append(engine, [op |-> "restore", tuner |-> tuner',
                                 file_exists |-> state_file.exists, rng |-> rng])
    /\ pc' = "remove"
    /\ UNCHANGED <<state_file, setup_dict, idx, rng, trainer_config, best_res_grid,
                   results_file, ray_up, exc, entry_file, init_file, runs>>
    /\ UNCHANGED modelVars

(* line 98: os.remove(state_file_path), for every content of the file *)
RemoveStateFileNot ==
    /\ pc = "remove"
    /\ pc' = "fit"
    /\ UNCHANGED <<state_file, setup_dict, idx, rng, trainer_config, tuner,
                   best_res_grid, results_file, ray_up, exc, engine, entry_file,
                   init_file, runs>>
    /\ UNCHANGED modelVars
RemoveStateFile ==
    /\ pc = "remove"
    /\ state_file' = NoFile
    /\ pc' = "fit"
    /\ UNCHANGED <<setup_dict, idx, rng, trainer_config, tuner, best_res_grid,
                   results_file, ray_up, exc, engine, entry_file, init_file, runs>>
    /\ UNCHANGED modelVars

(* lines 100-114: the else of the exists test builds a new Tuner *)
NewTuner ==
    /\ pc = "fresh"
    /\ tuner' = FreshTuner(trainer_config, setup_dict.training_iterations)
    /\ pc' = "fit"
    /\ UNCHANGED <<state_file, setup_dict, idx, rng, trainer_config, best_res_grid,
                   results_file, ray_up, exc, engine, entry_file, init_file, runs>>
    /\ UNCHANGED modelVars

(* line 116: tuner.fit(); the local tuner is read, bound or not *)
Fit ==
    /\ pc = "fit"
    /\ IF tuner.kind = "unbound"
       THEN /\ exc' = "UnboundLocalError"
            /\ pc' = "raised"
            /\ UNCHANGED engine
       ELSE /\ engine' = Append(engine, [op |-> "fit", tuner |-> tuner,
                                         file_exists |-> state_file.exists,
                                         rng |-> rng])
            /\ pc' = "best"
            /\ UNCHANGED exc
    /\ UNCHANGED <<state_file, setup_dict, idx, rng, trainer_config, tuner,
                   best_res_grid, results_file, ray_up, entry_file, init_file, runs>>
    /\ UNCHANGED modelVars

(* lines 117-123 and 136: the best result is returned to train, whose call *)
(* of save_results (line 137) is commented out; the loop goes on           *)
ReturnBest ==
    /\ pc = "best"
    /\ \E ckpt \in Checkpoints :
          best_res_grid' = [bound |-> TRUE, checkpoint |-> ckpt, tuner |-> tuner]
    /\ runs' = Append(runs, [seed |-> setup_dict.seed, entry |-> entry_file,
                             tuner |-> tuner, file_after |-> state_file,
                             fits |-> Cardinality({k \in 1..Len(engine) :
                                                      engine[k].op = "fit"})])
    /\ idx' = idx + 1
    /\ pc' = "loop"
    /\ UNCHANGED <<state_file, setup_dict, rng, trainer_config, tuner, results_file,
                   ray_up, exc, engine, entry_file, init_file>>
    /\ UNCHANGED modelVars

(* line 139: ray.shutdown() *)
Shutdown ==
    /\ pc = "shutdown"
    /\ ray_up' = FALSE
    /\ pc' = "return"
    /\ UNCHANGED <<state_file, setup_dict, idx, rng, trainer_config, tuner,
                   best_res_grid, results_file, exc, engine, entry_file, init_file,
                   runs>>
    /\ UNCHANGED modelVars

(* line 140: return best_res_grid, a local no iteration may have bound *)
TrainReturn ==
    /\ pc = "return"
    /\ IF best_res_grid.bound
       THEN pc' = "done" /\ UNCHANGED exc
       ELSE pc' = "raised" /\ exc' = "UnboundLocalError"
    /\ UNCHANGED <<state_file, setup_dict, idx, rng, trainer_config, tuner,
                   best_res_grid, results_file, ray_up, engine, entry_file,
                   init_file, runs>>
    /\ UNCHANGED modelVars

Next ==
    \/ TrainEnter
    \/ TrainNextSeed
    \/ TrainLoopEnd
    \/ SetupConfig
    \/ CheckStateFile
    \/ ReadStateFile
    \/ RestoreTuner
    \/ RemoveStateFile
    \/ NewTuner
    \/ Fit
    \/ ReturnBest
    \/ Shutdown
    \/ TrainReturn

--------------------------------------------------------------------------
(* Numbers of the model component.  Observations, contexts, hidden units   *)
(* and values are integers.  Logits need the magnitude 1e10 of the mask    *)
(* term next to ordinary values, so a logit is hi * 10^10 + lo, kept as    *)
(* the pair (hi, lo) with |lo| < 10^10, and inf = -1 marks minus infinity. *)

(* Bounds of the model component *)

MaxN == 2
MaxTupleLen == 3

Real(hi, lo) == [inf |-> 0, hi |-> hi, lo |-> lo]
NegInf == [inf |-> -1, hi |-> 0, lo |-> 0]

(* min=-1e10 of torch.clamp, lines 139 and 151 *)
MASK_MIN == Real(-1, 0)

Add(a, b) ==
    IF a.inf = -1 \/ b.inf = -1 THEN NegInf ELSE Real(a.hi + b.hi, a.lo + b.lo)

Less(a, b) ==
    IF a.inf # b.inf THEN a.inf < b.inf
    ELSE a.inf = 0 /\ (a.hi < b.hi \/ (a.hi = b.hi /\ a.lo < b.lo))

RECURSIVE SumSeq(_)
SumSeq(s) == IF s = <<>> THEN 0 ELSE Head(s) + SumSeq(Tail(s))

Vectors(S, n) == {s \in SeqsUpTo(S, n) : Len(s) = n}

(* nn.Tanh and nn.ReLU on the integer grid: tanh rounds to the sign *)
Tanh(x) == IF x > 0 THEN 1 ELSE IF x < 0 THEN -1 ELSE 0
ReLU(x) == IF x > 0 THEN x ELSE 0

Activation(fn, x) == IF fn = "Tanh" THEN Tanh(x) ELSE IF fn = "ReLU" THEN ReLU(x) ELSE x

(* torch.log of a 0/1 mask entry: log(1) = 0, log(0) = -inf *)
Log(m) == IF m = 1 THEN Real(0, 0) ELSE NegInf

(* torch.clamp(x, min=lo) *)
ClampNone(x, lo) == x
Clamp(x, lo) == IF Less(x, lo) THEN lo ELSE x

(* mask tables: a mask is a 0/1 vector or None *)
NoMask == [given |-> FALSE, m |-> <<>>]
Mask(m) == [given |-> TRUE, m |-> m]
MasksOf(n) == {NoMask} \cup {Mask(m) : m \in Vectors({0, 1}, n)}

(* lines 137-140 and 149-152: logits += clamp(log(mask), min=-1e10), *)
(* skipped when the mask is None                                     *)
ApplyMask(logits, mask) ==
    IF ~mask.given THEN logits
    ELSE [i \in 1..Len(logits) |-> Add(logits[i], Clamp(Log(mask.m[i]), MASK_MIN))]

(* SlimFC: a dense layer.  Every input feeds every unit with the gain of  *)
(* the layer, and unit i adds its own bias.                               *)
SlimFC(in_size, out_size, fn, gain, bias) ==
    [in_size |-> in_size, out_size |-> out_size, fn |-> fn, gain |-> gain,
     bias |-> bias]

NoLayer == SlimFC(0, 0, "", 0, <<>>)

(* a layer with integer output: context_layer, value_branch, a2_hidden *)
Dense(layer, x) ==
    [i \in 1..layer.out_size |->
        Activation(layer.fn, layer.gain * SumSeq(x) + layer.bias[i])]

(* a layer with logit output: a1_logits, a2_logits (activation_fn=None) *)
DenseLogits(layer, x) ==
    [i \in 1..layer.out_size |-> Add(Real(0, layer.gain * SumSeq(x)), layer.bias[i])]

(* Spaces of gymnasium: Discrete(n), a non-discrete space, Tuple(spaces) *)
Discrete(n) == [kind |-> "Discrete", n |-> n, spaces |-> <<>>]
Box == [kind |-> "Box", n |-> 0, spaces |-> <<>>]
TupleSpace(spaces) == [kind |-> "Tuple", n |-> 0, spaces |-> spaces]

(* The members of the first two slots range over every cardinality; a    *)
(* further slot is a Discrete(1) or a non-discrete space.                 *)
Members(k) == IF k <= 2 THEN {Discrete(n) : n \in 1..MaxN} \cup {Box}
              ELSE {Discrete(1), Box}

RECURSIVE TuplesUpTo(_)
TuplesUpTo(n) ==
    IF n = 0 THEN {<<>>}
    ELSE LET shorter == TuplesUpTo(n - 1)
         IN  shorter \cup {Append(s, x) : s \in {t \in shorter : Len(t) = n - 1},
                                          x \in Members(n)}

ActionSpaces == {Discrete(MaxN), Box} \cup {TupleSpace(s) : s \in TuplesUpTo(MaxTupleLen)}

NumOutputs == {2, 4}
ObsValues == {-1, 0, 2}
obs_shape == <<1>>
Observations == Vectors(ObsValues, obs_shape[1])
Gains == {-1, 1}
(* biases of a logit layer: as initialized (small), and as training may   *)
(* leave them (of any size, 2e10 included)                                *)
InitBiases == {Real(0, 0), Real(0, 1)}
LogitBiases == InitBiases \cup {Real(2, 0)}

(* the contexts handed to compute_action_logits: saturated either way *)
ContextInputs(n) == {[i \in 1..n |-> c] : c \in {-1, 1}}

(* The learned parameters, drawn by the initializers at construction *)
Params(n) ==
    [context_gain : {1}, value_gain : Gains, a1_bias : Vectors(InitBiases, n)]

(* line 44: isinstance(action_space, Tuple) and all members Discrete *)
IsTupleOfDiscrete(sp) ==
    /\ sp.kind = "Tuple"
    /\ \A k \in 1..Len(sp.spaces) : sp.spaces[k].kind = "Discrete"

Unbuilt ==
    [num_actions |-> 0, hidden_layer_size |-> 0, context_layer |-> NoLayer,
     value_branch |-> NoLayer, a1_logits |-> NoLayer, a2_hidden |-> NoLayer,
     a2_logits |-> NoLayer,
     context |-> [set |-> FALSE, v |-> <<>>],
     masks |-> [set |-> FALSE, mask_a1 |-> NoMask, mask_a2 |-> NoMask]]

(* lines 47-91: the attributes __init__ sets *)
Attributes(sp, num_outputs, p) ==
    LET num_actions == sp.spaces[1].n
        hidden_layer_size == num_outputs \div 2
    IN  [num_actions |-> num_actions,
         hidden_layer_size |-> hidden_layer_size,
         context_layer |-> SlimFC(obs_shape[1], num_outputs, "Tanh", p.context_gain,
                                  [i \in 1..num_outputs |-> 0]),
         value_branch |-> SlimFC(num_outputs, 1, "", p.value_gain, <<1>>),
         a1_logits |-> SlimFC(num_outputs, num_actions, "", 1, p.a1_bias),
         a2_hidden |-> SlimFC(1, hidden_layer_size, "ReLU", 1,
                              [i \in 1..hidden_layer_size |-> 0]),
         a2_logits |-> SlimFC(hidden_layer_size, num_actions, "", 1,
                              [i \in 1..num_actions |-> Real(0, i)]),
         context |-> [set |-> FALSE, v |-> <<>>],
         masks |-> [set |-> FALSE, mask_a1 |-> NoMask, mask_a2 |-> NoMask]]

NoReturn ==
    [kind |-> "none", exc |-> "", ctx_input |-> <<>>, a1_input |-> <<>>,
     a1 |-> <<>>, a2 |-> <<>>, value |-> <<>>]

NoForward ==
    [called |-> FALSE, obs |-> <<>>, mask_a1 |-> NoMask, mask_a2 |-> NoMask,
     logits_ctx |-> <<>>]

ModelUnbuilt ==
    /\ mpc = "unbuilt"
    /\ action_space = Box
    /\ self = Unbuilt
    /\ ret = NoReturn
    /\ fwd = NoForward

TrainerIdle ==
    /\ state_file = NoFile
    /\ setup_dict = [seeds_lst |-> <<>>, seed |-> -1, training_iterations |-> 1]
    /\ pc = "idle"
    /\ idx = 0
    /\ rng = Unseeded
    /\ trainer_config = [seed |-> -1]
    /\ tuner = UnboundTuner
    /\ best_res_grid = UnboundResult
    /\ results_file = <<>>
    /\ ray_up = TRUE
    /\ exc = ""
    /\ engine = <<>>
    /\ entry_file = NoFile
    /\ init_file = NoFile
    /\ runs = <<>>

(* __init__, lines 40-91 *)
Construct ==
    /\ mpc = "unbuilt"
    /\ \E sp \in ActionSpaces, num_outputs \in NumOutputs :
          /\ action_space' = sp
          /\ IF ~IsTupleOfDiscrete(sp)
             THEN /\ mpc' = "rejected"
                  /\ ret' = [NoReturn EXCEPT !.kind = "error", !.exc = "ValueError"]
                  /\ UNCHANGED self
             ELSE IF sp.spaces = <<>>
             THEN /\ mpc' = "rejected"
                  /\ ret' = [NoReturn EXCEPT !.kind = "error", !.exc = "IndexError"]
                  /\ UNCHANGED self
             ELSE /\ mpc' = "ready"
                  /\ \E p \in Params(sp.spaces[1].n) :
                        self' = Attributes(sp, num_outputs, p)
                  /\ ret' = [NoReturn EXCEPT !.kind = "model"]
    /\ UNCHANGED fwd
    /\ UNCHANGED trainerVars

(* the masks forward stores, lines 115-118: None for both slots, whatever *)
(* the input_dict carries                                                 *)
ForwardMasks(input_dict) ==
    [set |-> TRUE, mask_a1 |-> NoMask, mask_a2 |-> NoMask]

(* forward, lines 105-120 *)
Forward ==
    /\ mpc = "ready"
    /\ \E obs \in Observations,
          m1 \in MasksOf(self.num_actions),
          m2 \in {NoMask} :
          LET input_dict == [called |-> TRUE, obs |-> obs, mask_a1 |-> m1,
                             mask_a2 |-> m2, logits_ctx |-> <<>>]
              ctx == Dense(self.context_layer, obs)
          IN  /\ self' = [self EXCEPT !.context = [set |-> TRUE, v |-> ctx],
                                      !.masks = ForwardMasks(input_dict)]
              /\ fwd' = input_dict
              /\ ret' = [NoReturn EXCEPT !.kind = "forward", !.value = ctx]
    /\ UNCHANGED <<mpc, action_space>>
    /\ UNCHANGED trainerVars

(* what compute_action_logits leaves in the object: nothing *)
AfterLogitsCached(obj, ctx_input) ==
    [obj EXCEPT !.context = [set |-> TRUE, v |-> ctx_input]]
AfterLogits(obj, ctx_input) == obj

(* compute_action_logits, lines 134-155 *)
ComputeActionLogits ==
    /\ mpc = "ready"
    /\ \E ctx_input \in ContextInputs(self.a1_logits.in_size),
          a1 \in 0..(self.num_actions - 1) :
          LET a1_input == <<a1>>
              a1_raw == DenseLogits(self.a1_logits, ctx_input)
              a2_raw == DenseLogits(self.a2_logits, Dense(self.a2_hidden, a1_input))
          IN  IF ~self.masks.set
              THEN /\ ret' = [NoReturn EXCEPT !.kind = "error", !.exc = "TypeError",
                                              !.ctx_input = ctx_input,
                                              !.a1_input = a1_input]
                   /\ UNCHANGED <<self, fwd>>
              ELSE /\ fwd' = [fwd EXCEPT !.logits_ctx = ctx_input]
                   /\ ret' = [NoReturn EXCEPT
                                 !.kind = "logits",
                                 !.ctx_input = ctx_input,
                                 !.a1_input = a1_input,
                                 !.a1 = ApplyMask(a1_raw, self.masks.mask_a1),
                                 !.a2 = ApplyMask(a2_raw, self.masks.mask_a2)]
                   /\ self' = AfterLogits(self, ctx_input)
    /\ UNCHANGED <<mpc, action_space>>
    /\ UNCHANGED trainerVars

(* value_function, line 164 *)
ValueFunction ==
    /\ mpc = "ready"
    /\ IF ~self.context.set
       THEN ret' = [NoReturn EXCEPT !.kind = "error", !.exc = "TypeError"]
       ELSE ret' = [NoReturn EXCEPT !.kind = "value",
                                    !.value = Dense(self.value_branch, self.context.v)]
    /\ UNCHANGED <<mpc, action_space, self, fwd>>
    /\ UNCHANGED trainerVars

ModelNext ==
    \/ Construct
    \/ Forward
    \/ ComputeActionLogits
    \/ ValueFunction

(* A constructed model whose masks table was filled in by its caller *)
MaskInit ==
    /\ mpc = "ready"
    /\ \E n \in 1..MaxN :
          /\ action_space = TupleSpace(<<Discrete(n), Discrete(n)>>)
          /\ \E b \in Vectors(LogitBiases, n), m1 \in MasksOf(n), m2 \in MasksOf(n) :
                self = [Attributes(action_space, 2,
                                   [context_gain |-> 1, value_gain |-> 1, a1_bias |-> b])
                          EXCEPT !.masks = [set |-> TRUE, mask_a1 |-> m1, mask_a2 |-> m2]]
    /\ ret = [NoReturn EXCEPT !.kind = "model"]
    /\ fwd = NoForward

MaskNext ==
    \/ Forward
    \/ ComputeActionLogits
    \/ ValueFunction

--------------------------------------------------------------------------
(* Specifications *)

Init == TrainerInit /\ ModelUnbuilt
Spec == Init /\ [][Next]_vars

ModelInit == TrainerIdle /\ ModelUnbuilt
ModelSpec == ModelInit /\ [][ModelNext]_vars

MaskSpecInit == TrainerIdle /\ MaskInit
MaskSpec == MaskSpecInit /\ [][MaskNext]_vars

--------------------------------------------------------------------------
(* Properties of the trainer wrapper, checked under Spec *)

(* The contents of the state file that strip to the marker, listed *)
InterruptedContents ==
    { <<"interrupted">>, <<"interrupted", "\n">>, <<" ", "interrupted">> }

WasInterrupted(file) == file.exists /\ file.content \in InterruptedContents

InSetupNFit == pc \in {"check", "read", "restore", "remove", "fresh", "fit", "best"}

FitCalls == {k \in 1..Len(engine) : engine[k].op = "fit"}
RestoreCalls == {k \in 1..Len(engine) : engine[k].op = "restore"}

(* C1: in setup_n_fit, when the state file exists at entry and strips to  *)
(* "interrupted", the tuner is Tuner.restore on the experiment path, never *)
(* a new Tuner, and the state file is gone when tuner.fit() starts.        *)
C1_ResumeAndDelete ==
    /\ (WasInterrupted(entry_file) /\ pc \in {"fit", "best"}) =>
          /\ tuner.kind = "restore"
          /\ tuner.path = <<"~/ray_results", "puzzle">>
          /\ tuner.resume_unfinished
          /\ ~state_file.exists
    /\ \A k \in FitCalls :
          engine[k].tuner.kind = "restore" =>
             /\ ~engine[k].file_exists
             /\ k > 1 /\ engine[k - 1].op = "restore"
             /\ engine[k - 1].tuner = engine[k].tuner
    /\ \A k \in 1..Len(runs) :
          WasInterrupted(runs[k].entry) =>
             runs[k].tuner.kind = "restore" /\ ~runs[k].file_after.exists

C1_Witness ==
    /\ pc = "fit"
    /\ entry_file = FileWith(<<"interrupted", "\n">>)
    /\ tuner.kind = "restore"
    /\ ~state_file.exists

(* C2: in setup_n_fit, whenever the state file exists with a content that  *)
(* is not the marker, a new tuner with the iteration budget is built, its  *)
(* fit is run and the call returns a best result instead of failing.       *)
C2_OtherContentStartsFresh ==
    (entry_file.exists /\ ~WasInterrupted(entry_file)) =>
        /\ pc \in {"fit", "best"} =>
              tuner.kind = "fresh" /\ tuner.stop = setup_dict.training_iterations
        /\ exc = ""
        /\ \A k \in 1..Len(runs) :
              (runs[k].entry.exists /\ ~WasInterrupted(runs[k].entry)) =>
                  runs[k].tuner.kind = "fresh"

(* C3: in setup_n_fit, when the state file does not exist at entry, the    *)
(* branch raises nothing, the tuner is a new run stopping at               *)
(* training_iterations with checkpoint frequency 50 and a checkpoint at    *)
(* the end, fit is run exactly once, and the state file is neither created *)
(* nor deleted.                                                            *)
C3_AbsentIsFresh ==
    /\ (InSetupNFit /\ ~entry_file.exists) =>
          /\ ~state_file.exists
          /\ pc \notin {"read", "restore", "remove"}
          /\ pc \in {"fit", "best"} =>
                /\ tuner.kind = "fresh"
                /\ tuner.name = "puzzle"
                /\ tuner.stop = setup_dict.training_iterations
                /\ tuner.checkpoint_frequency = 50
                /\ tuner.checkpoint_at_end
                /\ tuner.param_seed = setup_dict.seed
          /\ Cardinality(FitCalls) = Len(runs) + (IF pc = "best" THEN 1 ELSE 0)
    /\ (pc = "raised" /\ idx <= Len(setup_dict.seeds_lst)) => entry_file.exists
    /\ \A k \in 1..Len(runs) :
          ~runs[k].entry.exists =>
             /\ runs[k].tuner.kind = "fresh"
             /\ runs[k].tuner.stop = setup_dict.training_iterations
             /\ runs[k].tuner.checkpoint_frequency = 50
             /\ runs[k].tuner.checkpoint_at_end
             /\ ~runs[k].file_after.exists
             /\ runs[k].fits = k

C3_Witness ==
    /\ pc = "loop"
    /\ Len(runs) = 1
    /\ ~runs[1].entry.exists
    /\ runs[1].tuner.kind = "fresh"
    /\ runs[1].fits = 1
    /\ ~state_file.exists

(* C4: after train returns on a list of n seeds, the results file has      *)
(* gained exactly n entries {seed, best_checkpoint}, one per seed, in list *)
(* order.                                                                  *)
C4_OneEntryPerSeed ==
    pc = "done" =>
        /\ Len(results_file) = Len(setup_dict.seeds_lst)
        /\ \A k \in 1..Len(results_file) :
              /\ Len(results_file[k]) = 1
              /\ results_file[k][1].seed = setup_dict.seeds_lst[k]

(* C10: within one train call the resume-or-fresh decision is taken again  *)
(* for every seed and at most one run is a resume: if the state file holds *)
(* "interrupted" at the start, only the first seed's run resumes, the file *)
(* is gone afterwards and every later seed starts a new run under the same *)
(* experiment name; the runs happen one after another in list order, each  *)
(* preceded by reseeding with its own seed.                                *)
C10_AtMostOneResume ==
    /\ Cardinality(RestoreCalls) <= 1
    /\ Len(runs) <= Len(setup_dict.seeds_lst)
    /\ Cardinality(FitCalls) = Len(runs) + (IF pc = "best" THEN 1 ELSE 0)
    /\ \A k \in 1..Len(runs) :
          /\ runs[k].seed = setup_dict.seeds_lst[k]
          /\ runs[k].tuner.param_seed = setup_dict.seeds_lst[k]
          /\ runs[k].fits = k
          /\ (runs[k].tuner.kind = "restore") <=> (k = 1 /\ WasInterrupted(init_file))
          /\ k > 1 => /\ runs[k].tuner.kind = "fresh"
                      /\ runs[k].tuner.name = "puzzle"
                      /\ ~runs[k].entry.exists
          /\ ~runs[k].file_after.exists
    /\ \A k \in 1..Len(engine) :
          LET nth == Cardinality({j \in 1..k : engine[j].op = "fit"})
                     + (IF engine[k].op = "fit" THEN 0 ELSE 1)
              seed == setup_dict.seeds_lst[nth]
          IN  /\ engine[k].rng = [torch |-> seed, cuda |-> seed, numpy |-> seed,
                                  random |-> seed]
              /\ engine[k].tuner.param_seed = seed
    /\ (WasInterrupted(init_file) /\ Len(runs) >= 1) => ~state_file.exists

C10_Witness ==
    /\ pc = "done"
    /\ WasInterrupted(init_file)
    /\ Len(runs) = 3
    /\ runs[1].tuner.kind = "restore"
    /\ runs[2].tuner.kind = "fresh"
    /\ runs[3].tuner.kind = "fresh"
    /\ runs[1].seed # runs[2].seed

--------------------------------------------------------------------------
(* Properties of the model, checked under ModelSpec and MaskSpec *)

IsTwoDiscreteSlots(sp) ==
    /\ sp.kind = "Tuple"
    /\ Len(sp.spaces) = 2
    /\ sp.spaces[1].kind = "Discrete"
    /\ sp.spaces[2].kind = "Discrete"

(* C5: an action space that is not exactly two discrete slots is rejected  *)
(* by __init__ with a configuration error and no model is produced.        *)
C5_OnlyTwoDiscreteSlots ==
    (mpc # "unbuilt" /\ ~IsTwoDiscreteSlots(action_space)) =>
        mpc = "rejected" /\ ret.kind = "error"

RawA1 == DenseLogits(self.a1_logits, ret.ctx_input)
RawA2 == DenseLogits(self.a2_logits, Dense(self.a2_hidden, ret.a1_input))

(* the raw logits of a slot differ by less than 1e10 *)
SpreadBelowMask(raw) ==
    \A i, j \in 1..Len(raw) : Less(raw[i], [raw[j] EXCEPT !.hi = @ + 1])

(* What C6 says of one slot, but for the order of masked and unmasked *)
MaskedSlot(out, raw, mask) ==
    /\ Len(out) = Len(raw)
    /\ \A i \in 1..Len(raw) :
          /\ out[i].inf = 0
          /\ mask.m[i] = 1 => out[i] = raw[i]
          /\ mask.m[i] = 0 => out[i] = [raw[i] EXCEPT !.hi = @ - 1]
    /\ \A i, j \in 1..Len(raw) :
          (mask.m[i] = 1 /\ mask.m[j] = 1) =>
              (Less(out[i], out[j]) <=> Less(raw[i], raw[j]))

MaskedBelowUnmasked(out, mask) ==
    \A i, j \in 1..Len(out) :
        (mask.m[i] = 0 /\ mask.m[j] = 1) => Less(out[i], out[j])

C7_IllegalActionMasked ==
    (ret.kind = "logits" /\ fwd.called /\ fwd.mask_a1.given) =>
        \A i \in 1..Len(ret.a1) :
            fwd.mask_a1.m[i] = 0 => ret.a1[i] = [RawA1[i] EXCEPT !.hi = @ - 1]

(* C8: for every accepted action space of two discrete slots, the a2       *)
(* logits have as many entries as slot two has actions.                    *)
C8_A2LengthIsSlotTwo ==
    (ret.kind = "logits" /\ IsTwoDiscreteSlots(action_space)) =>
        Len(ret.a2) = action_space.spaces[2].n

====
